---- MODULE Spec2Model ----
(***************************************************************************)
(* simpleprint: the /print handler (handlers.go), the receipt decoder and  *)
(* the enum translations (main.go), as a state machine.                    *)
(*                                                                         *)
(* A request goes  idle -> entry -> (Busy | bind -> exec* -> cut ->        *)
(* respond -> ret) -> done.  The printer mutex is shared by all requests;  *)
(* the device is a log of the operations the handlers issued on it.        *)
(***************************************************************************)
EXTENDS Integers, Sequences, FiniteSets, TLC

\* ------------------------------------------------------------------ bounds

\* Number of /print requests in flight in the concurrent specification.
NumReqs == 2

\* Longest "receipt" array of a request body in the single-job specification.
MaxItems == 3

\* Largest font size the single-item specification writes as a number.
MaxSize == 2

Reqs == 1 .. NumReqs

\* ------------------------------------------------------------- JSON values

\* A JSON value as encoding/json sees it. A number is its value n in tenths
\* and whether its literal is written with a fraction part (f).
JV(j, s, n, f, b) == [j |-> j, s |-> s, n |-> n, f |-> f, b |-> b]

Absent == JV("absent", "", 0, FALSE, FALSE)

Null == JV("null", "", 0, FALSE, FALSE)

Str(s) == JV("string", s, 0, FALSE, FALSE)

\* The integer literal n.
Num(n) == JV("number", "", 10 * n, FALSE, FALSE)

\* The literal with one fraction digit whose value is t tenths (25 is 2.5).
Frac(t) == JV("number", "", t, TRUE, FALSE)

Bool(b) == JV("bool", "", 0, FALSE, b)

\* A JSON object is a function from its keys to JSON values.
Get(obj, k) == IF k \in DOMAIN obj THEN obj[k] ELSE Absent

\* encoding/json into a Go string field: absent and null leave "", a string
\* is stored, anything else is an UnmarshalTypeError.
DecString(v) ==
  CASE v.j = "string" -> [err |-> FALSE, val |-> v.s]
    [] v.j \in {"absent", "null"} -> [err |-> FALSE, val |-> ""]
    [] OTHER -> [err |-> TRUE, val |-> ""]

\* encoding/json into a Go int field: absent and null leave 0, an integer
\* literal is stored, a literal with a fraction part or another type is an
\* error.
DecInt(v) ==
  CASE v.j = "number" /\ ~v.f -> [err |-> FALSE, val |-> v.n \div 10]
    [] v.j \in {"absent", "null"} -> [err |-> FALSE, val |-> 0]
    [] OTHER -> [err |-> TRUE, val |-> 0]

\* --------------------------------------------------------------- the enums

FontA == "A"

FontB == "B"

FontC == "C"

AlignLeft == "left"

AlignRight == "right"

AlignCenter == "center"

Alignments == {AlignLeft, AlignRight, AlignCenter}

BarcodeTypes == {"UPCA", "UPCE", "EAN13", "EAN8", "CODE39", "CODE128"}

None == "none"

FloydSteinberg == "floydsteinberg"

DitherModes == {None, FloydSteinberg}

\* FontType is a plain string type with no UnmarshalJSON: any JSON string is
\* stored as it is.
FontType_Unmarshal(v) == DecString(v)

\* A key that is absent never reaches UnmarshalJSON: the field keeps "".
\* Otherwise the value must be a string of the closed set (a null unmarshals
\* to "", which the switch rejects).
AlignmentType_UnmarshalJSON(v) ==
  CASE v.j = "absent" -> [err |-> FALSE, val |-> ""]
    [] v.j = "string" /\ v.s \in {"left", "right", "center"} ->
         [err |-> FALSE, val |-> v.s]
    [] OTHER -> [err |-> TRUE, val |-> ""]

BarcodeType_UnmarshalJSON(v) ==
  CASE v.j = "absent" -> [err |-> FALSE, val |-> ""]
    [] v.j = "string"
       /\ v.s \in {"UPCA", "UPCE", "EAN13", "EAN8", "CODE39", "CODE128"} ->
         [err |-> FALSE, val |-> v.s]
    [] OTHER -> [err |-> TRUE, val |-> ""]

DitherMode_UnmarshalJSON(v) ==
  CASE v.j = "absent" -> [err |-> FALSE, val |-> ""]
    [] v.j = "string" /\ v.s \in {"none", "floydsteinberg"} ->
         [err |-> FALSE, val |-> v.s]
    [] OTHER -> [err |-> TRUE, val |-> ""]

ToEscposFont(f) ==
  CASE f = FontA -> "FontA"
    [] f = FontB -> "FontB"
    [] f = FontC -> "FontC"
    [] OTHER -> "FontA"

ToEscposAlignment(a) ==
  CASE a = AlignLeft -> "AlignLeft"
    [] a = AlignRight -> "AlignRight"
    [] a = AlignCenter -> "AlignCenter"
    [] OTHER -> "AlignLeft"

ToEscposBarcodeType(t) ==
  CASE t = "codabar" -> "BarcodeTypeCODABAR"
    [] t = "code128" -> "BarcodeTypeCODE128"
    [] t = "code39" -> "BarcodeTypeCODE39"
    [] t = "ean13" -> "BarcodeTypeEAN13"
    [] t = "ean8" -> "BarcodeTypeEAN8"
    [] t = "itf" -> "BarcodeTypeITF"
    [] t = "upca" -> "BarcodeTypeUPCA"
    [] t = "upce" -> "BarcodeTypeUPCE"
    [] OTHER -> "BarcodeTypeCODABAR"

\* ------------------------------------------------------------ the commands

\* A decoded receipt item: the Go struct of its variant, the fields of the
\* other variants at their zero values.
Cmd(variant, type, content, fontSize, font, alignment, underline, lines, code, barcodeType, size, data, ditherMode) ==
  [variant |-> variant, Type |-> type, Content |-> content,
   FontSize |-> fontSize, Font |-> font, Alignment |-> alignment,
   Underline |-> underline, Lines |-> lines, Code |-> code,
   BarcodeType |-> barcodeType, Size |-> size, Data |-> data,
   DitherMode |-> ditherMode]

NoCmd == Cmd("nil", "", "", 0, "", "", FALSE, 0, "", "", 0, "", "")

\* The characters of the strings the payloads carry as font sizes.
Chars ==
  ("0" :> << "0" >>) @@ ("1" :> << "1" >>) @@ ("3" :> << "3" >>)
    @@ ("-1" :> << "-", "1" >>) @@ ("+2" :> << "+", "2" >>)
    @@ ("007" :> << "0", "0", "7" >>) @@ ("300" :> << "3", "0", "0" >>)
    @@ ("" :> << >>) @@ ("-" :> << "-" >>) @@ ("3.5" :> << "3", ".", "5" >>)
    @@ (" 3" :> << " ", "3" >>) @@ ("abc" :> << "a", "b", "c" >>)
    @@ ("3x" :> << "3", "x" >>) @@ ("true" :> << "t", "r", "u", "e" >>)

Digit ==
  ("0" :> 0) @@ ("1" :> 1) @@ ("2" :> 2) @@ ("3" :> 3) @@ ("4" :> 4)
    @@ ("5" :> 5) @@ ("6" :> 6) @@ ("7" :> 7) @@ ("8" :> 8) @@ ("9" :> 9)

RECURSIVE ParseDigits(_, _)
\* The base-10 loop of strconv.ParseUint: acc is the value of the digits
\* read so far; a character that is no digit is a syntax error.
ParseDigits(cs, acc) ==
  IF cs = << >> THEN [err |-> FALSE, val |-> acc]
  ELSE IF Head(cs) \notin DOMAIN Digit THEN [err |-> TRUE, val |-> 0]
  ELSE ParseDigits(Tail(cs), 10 * acc + Digit[Head(cs)])

\* json.Number(v).Int64(), that is strconv.ParseInt(v, 10, 64): an optional
\* sign, then at least one digit and nothing but digits.
ParseInt(s) ==
  LET cs == IF s \in DOMAIN Chars THEN Chars[s] ELSE << "?" >>
      signed == cs # << >> /\ Head(cs) \in {"+", "-"}
      digits == IF signed THEN Tail(cs) ELSE cs
      u == ParseDigits(digits, 0)
  IN  IF digits = << >> \/ u.err THEN [err |-> TRUE, val |-> 0]
      ELSE [err |-> FALSE,
            val |-> IF signed /\ Head(cs) = "-" THEN 0 - u.val ELSE u.val]

\* Mutant of Trunc: the conversion rounds down.
TruncFloor(t) == t \div 10

\* int(v) of a float64 of t tenths: the fraction is discarded, toward zero.
Trunc(t) == IF t >= 0 THEN t \div 10 ELSE 0 - ((0 - t) \div 10)

\* The FontSize switch of Line.UnmarshalJSON / Text.UnmarshalJSON on the
\* interface{} value: a string is parsed, a number (always float64) is
\* truncated, anything else leaves the field at 0.
CoerceFontSize(v) ==
  CASE v.j = "string" -> ParseInt(v.s)
    [] v.j = "number" -> [err |-> FALSE, val |-> Trunc(v.n)]
    [] OTHER -> [err |-> FALSE, val |-> 0]

\* Mutant of CoerceUnderline: only a boolean is looked at.
CoerceUnderlineBoolOnly(v) == v.j = "bool" /\ v.b

\* The Underline switch: the string "true" and the boolean true give true.
CoerceUnderline(v) ==
  CASE v.j = "string" -> (v.s = "true")
    [] v.j = "bool" -> v.b
    [] OTHER -> FALSE

\* Line.UnmarshalJSON; fsKey is the key the font size is read from.
DecodeLineLike(variant, obj, fsKey) ==
  LET ty == DecString(Get(obj, "type"))
      content == DecString(Get(obj, "content"))
      font == FontType_Unmarshal(Get(obj, "font"))
      align == AlignmentType_UnmarshalJSON(Get(obj, "alignment"))
      fs == CoerceFontSize(Get(obj, fsKey))
  IN  IF ty.err \/ content.err \/ font.err \/ align.err \/ fs.err
        THEN [err |-> TRUE, cmd |-> NoCmd]
        ELSE [err |-> FALSE,
              cmd |-> Cmd(variant, ty.val, content.val, fs.val, font.val,
                          align.val, CoerceUnderline(Get(obj, "underline")),
                          0, "", "", 0, "", "")]

Line_UnmarshalJSON(obj) == DecodeLineLike("Line", obj, "font-size")

Text_UnmarshalJSON(obj) == DecodeLineLike("Text", obj, "font_size")

Feed_Unmarshal(obj) ==
  LET ty == DecString(Get(obj, "type"))
      lines == DecInt(Get(obj, "lines"))
  IN  IF ty.err \/ lines.err
        THEN [err |-> TRUE, cmd |-> NoCmd]
        ELSE [err |-> FALSE,
              cmd |-> Cmd("Feed", ty.val, "", 0, "", "", FALSE, lines.val,
                          "", "", 0, "", "")]

Barcode_Unmarshal(obj) ==
  LET ty == DecString(Get(obj, "type"))
      code == DecString(Get(obj, "code"))
      bt == BarcodeType_UnmarshalJSON(Get(obj, "barcode_type"))
  IN  IF ty.err \/ code.err \/ bt.err
        THEN [err |-> TRUE, cmd |-> NoCmd]
        ELSE [err |-> FALSE,
              cmd |-> Cmd("Barcode", ty.val, "", 0, "", "", FALSE, 0,
                          code.val, bt.val, 0, "", "")]

QRCode_Unmarshal(obj) ==
  LET ty == DecString(Get(obj, "type"))
      code == DecString(Get(obj, "code"))
      size == DecInt(Get(obj, "size"))
  IN  IF ty.err \/ code.err \/ size.err
        THEN [err |-> TRUE, cmd |-> NoCmd]
        ELSE [err |-> FALSE,
              cmd |-> Cmd("QRCode", ty.val, "", 0, "", "", FALSE, 0,
                          code.val, "", size.val, "", "")]

Image_Unmarshal(obj) ==
  LET ty == DecString(Get(obj, "type"))
      data == DecString(Get(obj, "data"))
      align == AlignmentType_UnmarshalJSON(Get(obj, "alignment"))
      dm == DitherMode_UnmarshalJSON(Get(obj, "dither_mode"))
  IN  IF ty.err \/ data.err \/ align.err \/ dm.err
        THEN [err |-> TRUE, cmd |-> NoCmd]
        ELSE [err |-> FALSE,
              cmd |-> Cmd("Image", ty.val, "", 0, "", align.val, FALSE, 0,
                          "", "", 0, data.val, dm.val)]

\* One turn of the loop of PrintRequest.UnmarshalJSON: extract "type", then
\* unmarshal the item as the struct of that type.
DecodeItem(obj) ==
  LET ty == DecString(Get(obj, "type"))
  IN  IF ty.err THEN [err |-> TRUE, cmd |-> NoCmd]
      ELSE CASE ty.val = "line" -> Line_UnmarshalJSON(obj)
             [] ty.val = "barcode" -> Barcode_Unmarshal(obj)
             [] ty.val = "qr" -> QRCode_Unmarshal(obj)
             [] ty.val = "image" -> Image_Unmarshal(obj)
             [] ty.val = "text" -> Text_UnmarshalJSON(obj)
             [] ty.val = "feed" -> Feed_Unmarshal(obj)
             [] OTHER -> [err |-> TRUE, cmd |-> NoCmd]

\* A request body: syntactically valid JSON or not, and its "receipt" array.
Body(items) == [read |-> TRUE, syntax |-> TRUE, receipt |-> items]

Malformed == [read |-> TRUE, syntax |-> FALSE, receipt |-> << >>]

\* The body of a request whose handler has not read it.
NoBody == [read |-> FALSE, syntax |-> FALSE, receipt |-> << >>]

\* Index of the first item of the array that fails to decode, 0 if none.
FirstBad(items) ==
  LET bad == {i \in 1 .. Len(items) : DecodeItem(items[i]).err}
  IN  IF bad = {} THEN 0 ELSE CHOOSE i \in bad : \A k \in bad : i <= k

\* PrintRequest.UnmarshalJSON: the items are decoded in order and the first
\* failure returns the error; pr.Receipt then holds the items before it.
UnmarshalJSON(body) ==
  IF ~body.syntax THEN [err |-> TRUE, Receipt |-> << >>]
  ELSE LET k == FirstBad(body.receipt)
       IN  IF k = 0
             THEN [err |-> FALSE,
                   Receipt |-> [i \in 1 .. Len(body.receipt) |->
                                  DecodeItem(body.receipt[i]).cmd]]
             ELSE [err |-> TRUE,
                   Receipt |-> [i \in 1 .. (k - 1) |->
                                  DecodeItem(body.receipt[i]).cmd]]

\* json.Marshal of one command: the keys of its struct's tags, the fields as
\* they are (the Type field too, "" in a struct built without it).
Marshal(c) ==
  LET ty == "type" :> Str(c.Type)
      fmt(fsKey) == ty @@ ("content" :> Str(c.Content))
                       @@ (fsKey :> Num(c.FontSize))
                       @@ ("font" :> Str(c.Font))
                       @@ ("alignment" :> Str(c.Alignment))
                       @@ ("underline" :> Bool(c.Underline))
  IN  CASE c.variant = "Line" -> fmt("font-size")
        [] c.variant = "Text" -> fmt("font_size")
        [] c.variant = "Feed" -> ty @@ ("lines" :> Num(c.Lines))
        [] c.variant = "Barcode" ->
             ty @@ ("code" :> Str(c.Code))
                @@ ("barcode_type" :> Str(c.BarcodeType))
        [] c.variant = "QRCode" ->
             ty @@ ("code" :> Str(c.Code)) @@ ("size" :> Num(c.Size))
        [] OTHER ->
             ty @@ ("data" :> Str(c.Data))
                @@ ("alignment" :> Str(c.Alignment))
                @@ ("dither_mode" :> Str(c.DitherMode))

\* json.Marshal of a PrintRequest.
MarshalRequest(cmds) == Body([i \in 1 .. Len(cmds) |-> Marshal(cmds[i])])

\* ------------------------------------------------------------ the payloads

LineObj(content, fontSize, font, alignment, underline) ==
  ("type" :> Str("line")) @@ ("content" :> Str(content))
    @@ ("font-size" :> fontSize) @@ ("font" :> Str(font))
    @@ ("alignment" :> Str(alignment)) @@ ("underline" :> underline)

TextObj(content, fontSize, font, alignment, underline) ==
  ("type" :> Str("text")) @@ ("content" :> Str(content))
    @@ ("font_size" :> fontSize) @@ ("font" :> Str(font))
    @@ ("alignment" :> Str(alignment)) @@ ("underline" :> underline)

FeedObj(lines) == ("type" :> Str("feed")) @@ ("lines" :> Num(lines))

BarcodeObj(code, barcodeType) ==
  ("type" :> Str("barcode")) @@ ("code" :> Str(code))
    @@ ("barcode_type" :> Str(barcodeType))

QRObj(code, size) ==
  ("type" :> Str("qr")) @@ ("code" :> Str(code)) @@ ("size" :> Num(size))

ImageObj(data, alignment, ditherMode) ==
  ("type" :> Str("image")) @@ ("data" :> Str(data))
    @@ ("alignment" :> Str(alignment)) @@ ("dither_mode" :> Str(ditherMode))

\* Image data that base64- and PNG-decodes; any other data does not.
GoodPNG == "iVBORw0KGgo"

LineOK == LineObj("Hello", Num(2), "A", "center", Bool(TRUE))

LineFontZ == LineObj("Zed", Num(1), "Z", "left", Bool(FALSE))

LineBadAlign == LineObj("Mid", Num(1), "A", "middle", Bool(FALSE))

TextOK == TextObj("Multi", Str("3"), "B", "right", Str("true"))

Feed0 == FeedObj(0)

Feed2 == FeedObj(2)

BarcodeOK == BarcodeObj("123456789012", "CODE128")

BarcodeBadType == BarcodeObj("123", "QR")

\* A barcode item that carries an alignment of its own.
BarcodeAligned == ("alignment" :> Str("right")) @@ BarcodeObj("4006381333931", "EAN13")

QROK == QRObj("https://example.com", 8)

ImageOK == ImageObj(GoodPNG, "left", "floydsteinberg")

ImageJunk == ImageObj("not-a-png", "center", "none")

ImageBadDither == ImageObj(GoodPNG, "left", "bayer")

UnknownType == ("type" :> Str("bogus")) @@ ("content" :> Str("x"))

NoType == "content" :> Str("x")

\* The items the single-job specification builds request bodies from.
RawItems ==
  {LineOK, LineFontZ, LineBadAlign, TextOK, Feed0, Feed2, BarcodeOK,
   BarcodeBadType, BarcodeAligned, QROK, ImageOK, ImageJunk, ImageBadDither,
   UnknownType, NoType}

SeqsUpTo(S, n) == UNION {[1 .. k -> S] : k \in 0 .. n}

JobBodies == {Malformed} \cup {Body(items) : items \in SeqsUpTo(RawItems, MaxItems)}

\* A key with its value, or no key at all.
Opt(k, v) == IF v.j = "absent" THEN [x \in {} |-> v] ELSE k :> v

\* A line or text item with its font size under the key fsKey, and its
\* underline and alignment as given (or left out).
LineLikeObj(type, fsKey, fontSize, underline, alignment) ==
  ("type" :> Str(type)) @@ ("content" :> Str("Hello")) @@ ("font" :> Str("B"))
    @@ Opt(fsKey, fontSize) @@ Opt("underline", underline)
    @@ Opt("alignment", alignment)

\* The spellings of the font-size key: the Line tag and the Text tag.
FontSizeKeys == {"font-size", "font_size"}

\* What a payload may carry as a font size: nothing, null, a boolean, an
\* integer, a number with a fraction, a string.
FontSizeValues ==
  {Absent, Null, Bool(TRUE)}
    \cup {Num(n) : n \in (0 - 1) .. MaxSize}
    \cup {Num(n) : n \in {255, 256, 257, 300, 0 - 257}}
    \cup {Frac(t) : t \in (0 - (10 * MaxSize + 9)) .. (10 * MaxSize + 9)}
    \cup {Str(s) : s \in DOMAIN Chars}

\* What a payload may carry as underline.
UnderlineValues ==
  {Absent, Null, Bool(TRUE), Bool(FALSE), Num(1), Str("true"), Str("false"),
   Str("banana"), Str("TRUE"), Str("True"), Str("1"), Str("")}

\* An image item that leaves out its alignment and its dither mode.
ImageBare == ("type" :> Str("image")) @@ ("data" :> Str(GoodPNG))

\* A barcode item that leaves out its barcode type.
BarcodeBare == ("type" :> Str("barcode")) @@ ("code" :> Str("123"))

\* The items of the single-item specification: line and text items over
\* every font size and underline value, the six barcode types, and one item
\* of every other kind.
FieldItems ==
  {LineLikeObj(t, k, fs, Bool(TRUE), Str("right")) :
     t \in {"line", "text"}, k \in FontSizeKeys, fs \in FontSizeValues}
    \cup {LineLikeObj(t, k, Num(2), ul, al) :
            t \in {"line", "text"}, k \in FontSizeKeys, ul \in UnderlineValues,
            al \in {Absent, Str("center")}}
    \cup {BarcodeObj("123456789012", bt) : bt \in BarcodeTypes}
    \cup {BarcodeAligned, BarcodeBare, BarcodeBadType, QROK, Feed2, ImageOK,
          ImageJunk, ImageBare, LineFontZ}

ItemBodies == {Body(<< it >>) : it \in FieldItems}

\* The job of TestHandlePrint_ConcurrentRequests, as the test builds it:
\* struct literals that leave Type (and Underline) at their zero values.
TestJob ==
  << Cmd("Line", "", "Concurrent Test", 1, FontA, AlignCenter, FALSE, 0, "", "", 0, "", ""),
     Cmd("Feed", "", "", 0, "", "", FALSE, 3, "", "", 0, "", "") >>

\* The bodies the concurrent requests carry.
ConcBodies ==
  {Malformed, Body(<< >>), Body(<<LineOK, Feed0>>), Body(<<QROK, ImageJunk>>),
   Body(<<TextOK, UnknownType>>), MarshalRequest(TestJob)}

\* -------------------------------------------------------------- the device

\* One call on the shared *escpos.Printer, with the request and the index of
\* the receipt item that issued it (0 for the final cut).
Op(r, i, op, a, sym, n, b) ==
  [req |-> r, idx |-> i, op |-> op, a |-> a, s |-> sym, n |-> n, b |-> b]

\* Mutant of Uint8: the conversion saturates at the ends of the range.
Uint8Saturate(n) == IF n > 255 THEN 255 ELSE IF n < 0 THEN 0 ELSE n

\* uint8(v): the conversion keeps the low eight bits.
Uint8(n) == n % 256

\* processImage: nil when the data does not decode; the decoded image for
\* dither mode none; otherwise the result of d.Dither, whose matrix is set
\* only for floydsteinberg.
processImage(c) ==
  CASE c.Data # GoodPNG -> "nil"
    [] c.DitherMode = None -> "img"
    [] c.DitherMode = FloydSteinberg -> "dithered"
    [] OTHER -> "dithered-nomatrix"

\* case Line: font, alignment, size, underline, then the content and a
\* line break.
LineOps(r, i, c) ==
  << Op(r, i, "Font", ToEscposFont(c.Font), "", 0, FALSE),
     Op(r, i, "Align", ToEscposAlignment(c.Alignment), "", 0, FALSE),
     Op(r, i, "Size", "", "", Uint8(c.FontSize), FALSE),
     Op(r, i, "Underline", "", "", 0, c.Underline),
     Op(r, i, "PrintLn", c.Content, "", 0, FALSE) >>

\* Mutant of TextOps: the content is emitted before the formatting calls.
TextOpsContentFirst(r, i, c) ==
  << Op(r, i, "Print", c.Content, "", 0, FALSE),
     Op(r, i, "Font", ToEscposFont(c.Font), "", 0, FALSE),
     Op(r, i, "Align", ToEscposAlignment(c.Alignment), "", 0, FALSE),
     Op(r, i, "Size", "", "", Uint8(c.FontSize), FALSE),
     Op(r, i, "Underline", "", "", 0, c.Underline) >>

\* case Text: as Line, the content emitted by Print.
TextOps(r, i, c) ==
  << Op(r, i, "Font", ToEscposFont(c.Font), "", 0, FALSE),
     Op(r, i, "Align", ToEscposAlignment(c.Alignment), "", 0, FALSE),
     Op(r, i, "Size", "", "", Uint8(c.FontSize), FALSE),
     Op(r, i, "Underline", "", "", 0, c.Underline),
     Op(r, i, "Print", c.Content, "", 0, FALSE) >>

\* case Feed
FeedOps(r, i, c) == << Op(r, i, "Feed", "", "", c.Lines, FALSE) >>

\* Mutant of BarcodeOps: the barcode is emitted in the alignment in force.
BarcodeOpsNoAlign(r, i, c) ==
  << Op(r, i, "Barcode", c.Code, ToEscposBarcodeType(c.BarcodeType), 0, FALSE) >>

\* case Barcode: center, then the barcode in the translated symbology.
BarcodeOps(r, i, c) ==
  << Op(r, i, "Align", "AlignCenter", "", 0, FALSE),
     Op(r, i, "Barcode", c.Code, ToEscposBarcodeType(c.BarcodeType), 0, FALSE) >>

\* case QRCode: center, then the QR code.
QRCodeOps(r, i, c) ==
  << Op(r, i, "Align", "AlignCenter", "", 0, FALSE),
     Op(r, i, "QR", c.Code, "", c.Size, FALSE) >>

\* case Image: the raster of processImage, no other call.
ImageOps(r, i, c) == << Op(r, i, "Image", c.Data, processImage(c), 0, FALSE) >>

\* The device calls of one turn of the loop of handlePrint, in call order.
ItemOps(r, i, c) ==
  CASE c.variant = "Line" -> LineOps(r, i, c)
    [] c.variant = "Text" -> TextOps(r, i, c)
    [] c.variant = "Feed" -> FeedOps(r, i, c)
    [] c.variant = "Barcode" -> BarcodeOps(r, i, c)
    [] c.variant = "QRCode" -> QRCodeOps(r, i, c)
    [] c.variant = "Image" -> ImageOps(r, i, c)
    [] OTHER -> << >>

\* ---------------------------------------------------------------- the state

VARIABLES
  printerMutex,  \* the global sync.Mutex: TRUE while locked
  pc,            \* where each request's handler stands
  body,          \* the request body, once ShouldBindJSON has read it
  req,           \* req.Receipt of each handler
  idx,           \* the index of the item the range loop comes to next
  outcome,       \* the response written for each request
  device,        \* every call made on the shared printer, in order
  ioFailed,      \* whether a device call of the request returned an error
  locks,         \* history: how often the request's TryLock succeeded
  unlocks,       \* history: how often the request called Unlock
  inflight,      \* history: the requests in flight when this one was submitted
  contended      \* history: the requests holding the lock at this one's TryLock

vars ==
  << printerMutex, pc, body, req, idx, outcome, device, ioFailed, locks,
     unlocks, inflight, contended >>

\* Between a successful TryLock and the deferred Unlock.
Holding == {"bind", "exec", "cut", "respond", "ret", "panic"}

InFlight(r) == pc[r] \notin {"idle", "done"}

Init ==
  /\ printerMutex = FALSE
  /\ pc = [r \in Reqs |-> "idle"]
  /\ body = [r \in Reqs |-> NoBody]
  /\ req = [r \in Reqs |-> << >>]
  /\ idx = [r \in Reqs |-> 1]
  /\ outcome = [r \in Reqs |-> "none"]
  /\ device = << >>
  /\ ioFailed = [r \in Reqs |-> FALSE]
  /\ locks = [r \in Reqs |-> 0]
  /\ unlocks = [r \in Reqs |-> 0]
  /\ inflight = [r \in Reqs |-> {}]
  /\ contended = [r \in Reqs |-> {}]

\* A request reaches the router; the middleware sets "printer" and calls
\* the handler.
Submit(r) ==
  /\ pc[r] = "idle"
  /\ pc' = [pc EXCEPT ![r] = "entry"]
  /\ inflight' = [inflight EXCEPT ![r] = {q \in Reqs : InFlight(q)}]
  /\ UNCHANGED << printerMutex, body, req, idx, outcome, device, ioFailed,
                  locks, unlocks, contended >>

\* Mutant of TryLock: the lock is taken whether or not it is held.
TryLockAlways == TRUE

\* printerMutex.TryLock(): succeeds exactly when the mutex is unlocked.
TryLock == ~printerMutex

\* Mutant of HandlePrintBusy: the handler queues behind the holder instead
\* of answering.
HandlePrintQueue(r) ==
  /\ pc[r] = "entry"
  /\ ~TryLock
  /\ pc' = [pc EXCEPT ![r] = "queued"]
  /\ UNCHANGED << printerMutex, body, req, idx, outcome, device, ioFailed,
                  locks, unlocks, inflight, contended >>

\* Mutant of HandlePrintBusy: the busy branch answers 503 but lacks its
\* return, so the handler goes on without the lock.
HandlePrintBusyNoReturn(r) ==
  /\ pc[r] = "entry"
  /\ ~TryLock
  /\ outcome' = [outcome EXCEPT ![r] = "Busy"]
  /\ pc' = [pc EXCEPT ![r] = "bind"]
  /\ contended' = [contended EXCEPT ![r] = {q \in Reqs : pc[q] \in Holding}]
  /\ UNCHANGED << printerMutex, body, req, idx, device, ioFailed, locks,
                  unlocks, inflight >>

\* Mutant of HandlePrintBusy: the body is decoded before the mutex is
\* tried, so a body that fails to decode is answered 400 while the mutex is
\* held by another request.
HandlePrintDecodeFirst(r) ==
  /\ pc[r] = "entry"
  /\ ~TryLock
  /\ \E b \in ConcBodies :
       /\ body' = [body EXCEPT ![r] = b]
       /\ outcome' = [outcome EXCEPT ![r] =
                        IF UnmarshalJSON(b).err THEN "DecodeError" ELSE "Busy"]
  /\ pc' = [pc EXCEPT ![r] = "done"]
  /\ contended' = [contended EXCEPT ![r] = {q \in Reqs : pc[q] \in Holding}]
  /\ UNCHANGED << printerMutex, req, idx, device, ioFailed, locks, unlocks,
                  inflight >>

\* if !printerMutex.TryLock() { c.JSON(503, ...); return }
HandlePrintBusy(r) ==
  /\ pc[r] = "entry"
  /\ ~TryLock
  /\ outcome' = [outcome EXCEPT ![r] = "Busy"]
  /\ pc' = [pc EXCEPT ![r] = "done"]
  /\ contended' = [contended EXCEPT ![r] = {q \in Reqs : pc[q] \in Holding}]
  /\ UNCHANGED << printerMutex, body, req, idx, device, ioFailed, locks,
                  unlocks, inflight >>

\* TryLock succeeded; defer printerMutex.Unlock(); MustGet("printer").
HandlePrintLock(r) ==
  /\ pc[r] = "entry"
  /\ TryLock
  /\ printerMutex' = TRUE
  /\ locks' = [locks EXCEPT ![r] = @ + 1]
  /\ pc' = [pc EXCEPT ![r] = "bind"]
  /\ contended' = [contended EXCEPT ![r] = {q \in Reqs : pc[q] \in Holding}]
  /\ UNCHANGED << body, req, idx, outcome, device, ioFailed, unlocks,
                  inflight >>

\* Mutant of BindFailed: the error of ShouldBindJSON is not looked at.
BindErrorIgnored(d) == FALSE

\* if err := c.ShouldBindJSON(&req); err != nil
BindFailed(d) == d.err

\* c.ShouldBindJSON(&req): a failure answers 400 and returns; otherwise the
\* range loop starts (and ends at once on an empty receipt).
Bind(r, bodies) ==
  /\ pc[r] = "bind"
  /\ \E b \in bodies :
       LET d == UnmarshalJSON(b) IN
         /\ body' = [body EXCEPT ![r] = b]
         /\ req' = [req EXCEPT ![r] = d.Receipt]
         /\ IF BindFailed(d)
              THEN /\ outcome' = [outcome EXCEPT ![r] = "DecodeError"]
                   /\ pc' = [pc EXCEPT ![r] = "ret"]
              ELSE /\ outcome' = outcome
                   /\ pc' = [pc EXCEPT ![r] =
                               IF Len(d.Receipt) = 0 THEN "cut" ELSE "exec"]
  /\ UNCHANGED << printerMutex, idx, device, ioFailed, locks, unlocks,
                  inflight, contended >>

\* Mutant of RangeItem: the loop walks the receipt from its end.
RangeItemReversed(items, i) == items[Len(items) + 1 - i]

\* The item the range loop hands to its i-th turn.
RangeItem(items, i) == items[i]

\* Whether the device library may panic on the item's calls: p.Image is handed
\* the nil image that processImage returns for undecodable data.
MayPanic(c) == c.variant = "Image" /\ processImage(c) = "nil"

\* Mutant of ExecItem: a turn whose device call returned an error ends the
\* handler at once, with no cut and no response of its own.
ExecItemAbortOnError(r) ==
  /\ pc[r] = "exec"
  /\ \E ok \in BOOLEAN :
       /\ device' = device \o ItemOps(r, idx[r], RangeItem(req[r], idx[r]))
       /\ ioFailed' = [ioFailed EXCEPT ![r] = @ \/ ~ok]
       /\ pc' = [pc EXCEPT ![r] =
                   IF ~ok THEN "ret"
                   ELSE IF idx[r] >= Len(req[r]) THEN "cut" ELSE "exec"]
  /\ idx' = [idx EXCEPT ![r] = @ + 1]
  /\ UNCHANGED << printerMutex, body, req, outcome, locks, unlocks, inflight,
                  contended >>

\* One turn of the loop: the item's device calls, whose errors are dropped
\* (the barcode's is printed); ok tells whether they all succeeded.
ExecItem(r) ==
  /\ pc[r] = "exec"
  /\ \E ok \in BOOLEAN :
       /\ device' = device \o ItemOps(r, idx[r], RangeItem(req[r], idx[r]))
       /\ ioFailed' = [ioFailed EXCEPT ![r] = @ \/ ~ok]
  /\ idx' = [idx EXCEPT ![r] = @ + 1]
  /\ pc' = [pc EXCEPT ![r] = IF idx[r] >= Len(req[r]) THEN "cut" ELSE "exec"]
  /\ UNCHANGED << printerMutex, body, req, outcome, locks, unlocks, inflight,
                  contended >>

\* A device call of the turn panics: the handler unwinds.
PanicItem(r) ==
  /\ pc[r] = "exec"
  /\ MayPanic(RangeItem(req[r], idx[r]))
  /\ pc' = [pc EXCEPT ![r] = "panic"]
  /\ UNCHANGED << printerMutex, body, req, idx, outcome, device, ioFailed,
                  locks, unlocks, inflight, contended >>

\* Mutant of CutOps: no cut after a loop that ran no turn.
CutOpsUnlessEmpty(r) ==
  IF Len(req[r]) = 0 THEN << >> ELSE << Op(r, 0, "Cut", "", "", 0, FALSE) >>

\* p.Cut() after the loop.
CutOps(r) == << Op(r, 0, "Cut", "", "", 0, FALSE) >>

\* The step of p.Cut(), its error dropped.
Cut(r) ==
  /\ pc[r] = "cut"
  /\ \E ok \in BOOLEAN :
       /\ device' = device \o CutOps(r)
       /\ ioFailed' = [ioFailed EXCEPT ![r] = @ \/ ~ok]
  /\ pc' = [pc EXCEPT ![r] = "respond"]
  /\ UNCHANGED << printerMutex, body, req, idx, outcome, locks, unlocks,
                  inflight, contended >>

\* c.JSON(200, gin.H{"success": true})
Respond(r) ==
  /\ pc[r] = "respond"
  /\ outcome' = [outcome EXCEPT ![r] = "Success"]
  /\ pc' = [pc EXCEPT ![r] = "ret"]
  /\ UNCHANGED << printerMutex, body, req, idx, device, ioFailed, locks,
                  unlocks, inflight, contended >>

\* Mutant of DeferredUnlock: Unlock is called at the end of the success path
\* only, not deferred.
UnlockOnSuccessOnly(r) ==
  IF outcome[r] = "Success"
    THEN /\ printerMutex' = FALSE
         /\ unlocks' = [unlocks EXCEPT ![r] = @ + 1]
    ELSE UNCHANGED << printerMutex, unlocks >>

\* The deferred printerMutex.Unlock() of request r.
DeferredUnlock(r) ==
  /\ printerMutex' = FALSE
  /\ unlocks' = [unlocks EXCEPT ![r] = @ + 1]

\* The handler returns after its response: the deferred Unlock runs.
Return(r) ==
  /\ pc[r] = "ret"
  /\ DeferredUnlock(r)
  /\ pc' = [pc EXCEPT ![r] = "done"]
  /\ UNCHANGED << body, req, idx, outcome, device, ioFailed, locks, inflight,
                  contended >>

\* The panic unwinds the handler: the deferred Unlock runs, then the
\* Recovery middleware of gin.Default() answers 500.
Recover(r) ==
  /\ pc[r] = "panic"
  /\ DeferredUnlock(r)
  /\ outcome' = [outcome EXCEPT ![r] = "Panic"]
  /\ pc' = [pc EXCEPT ![r] = "done"]
  /\ UNCHANGED << body, req, idx, device, ioFailed, locks, inflight,
                  contended >>

\* Any number of requests handled concurrently.
Next ==
  \E r \in Reqs :
    \/ Submit(r)
    \/ HandlePrintBusy(r)
    \/ HandlePrintLock(r)
    \/ Bind(r, ConcBodies)
    \/ ExecItem(r)
    \/ PanicItem(r)
    \/ Cut(r)
    \/ Respond(r)
    \/ Return(r)
    \/ Recover(r)

Spec == Init /\ [][Next]_vars

\* The bodies of the requests of the fair specification: one that does not
\* decode, a job, and a job whose last device call may panic.
LiveBodies == {Malformed, Body(<<LineOK, Feed0>>), Body(<<QROK, ImageJunk>>)}

\* The steps of the handler of request r, once gin has called it.
HandlerStep(r) ==
  \/ HandlePrintBusy(r)
  \/ HandlePrintLock(r)
  \/ Bind(r, LiveBodies)
  \/ ExecItem(r)
  \/ PanicItem(r)
  \/ Cut(r)
  \/ Respond(r)
  \/ Return(r)
  \/ Recover(r)

\* gin runs every handler on a goroutine of its own and the Go scheduler
\* lets every runnable goroutine run; TryLock does not block, and a device
\* call that returns lets the handler take its next step.
Fairness == \A r \in Reqs : WF_vars(HandlerStep(r))

\* Any number of requests handled concurrently, every called handler
\* running on.
NextLive == \E r \in Reqs : Submit(r) \/ HandlerStep(r)

SpecLive == Init /\ [][NextLive]_vars /\ Fairness

\* One request handled alone, over every body of JobBodies.
NextJob ==
  \/ Submit(1)
  \/ HandlePrintLock(1)
  \/ Bind(1, JobBodies)
  \/ ExecItem(1)
  \/ PanicItem(1)
  \/ Cut(1)
  \/ Respond(1)
  \/ Return(1)
  \/ Recover(1)

SpecJob == Init /\ [][NextJob]_vars

\* One request handled alone, its receipt a single item of FieldItems.
NextItem ==
  \/ Submit(1)
  \/ HandlePrintLock(1)
  \/ Bind(1, ItemBodies)
  \/ ExecItem(1)
  \/ PanicItem(1)
  \/ Cut(1)
  \/ Respond(1)
  \/ Return(1)
  \/ Recover(1)

SpecItem == Init /\ [][NextItem]_vars

\* ------------------------------------------------------------ the claims

\* C1: mutual exclusion. In every reachable state at most one request is
\* between its successful TryLock and its Unlock, so at most one request is
\* at a point of the handler that issues device calls (the loop, the cut),
\* and the mutex is locked whenever a request is there.
C1_MutualExclusion ==
  /\ Cardinality({r \in Reqs : pc[r] \in Holding}) <= 1
  /\ \A r \in Reqs :
       pc[r] \in {"exec", "cut"} =>
         /\ printerMutex
         /\ \A q \in Reqs \ {r} : pc[q] \notin Holding

\* One request is in its loop while another has been turned away.
C1_Witness ==
  \E r \in Reqs : \E q \in Reqs \ {r} :
    /\ pc[r] = "exec"
    /\ idx[r] = 2
    /\ outcome[q] = "Busy"

\* C2: a handler that reaches TryLock while another request holds the mutex
\* can take its step at once, and that step answers Busy and ends the
\* handler: no device call, the mutex still locked, the holder where it was.
C2_BusyAtOnce ==
  /\ [](\A r \in Reqs :
          (pc[r] = "entry" /\ printerMutex) => ENABLED HandlePrintBusy(r))
  /\ [][\A r \in Reqs :
          (pc[r] = "entry" /\ printerMutex /\ pc'[r] # pc[r]) =>
            /\ pc'[r] = "done"
            /\ outcome'[r] = "Busy"
            /\ device' = device
            /\ printerMutex'
            /\ locks' = locks
            /\ unlocks' = unlocks
            /\ \A q \in Reqs \ {r} : pc'[q] = pc[q]]_vars

\* A request was answered Busy while the holder it met is still holding.
C2_Witness ==
  \E r \in Reqs : \E q \in Reqs \ {r} :
    /\ outcome[r] = "Busy"
    /\ pc[r] = "done"
    /\ q \in contended[r]
    /\ pc[q] \in Holding
    /\ printerMutex

\* C3: a handler that locked the mutex unlocks it exactly once, on the
\* success path, on the decode-error path and when a device call panics; a
\* handler that was turned away never unlocks. The mutex is locked exactly
\* while some handler is between lock and unlock, so it is free for the next
\* request once that handler is done.
C3_ReleasedOnce ==
  /\ \A r \in Reqs :
       /\ locks[r] <= 1
       /\ unlocks[r] <= locks[r]
       /\ pc[r] \in Holding => (locks[r] = 1 /\ unlocks[r] = 0)
       /\ pc[r] = "done" => unlocks[r] = locks[r]
       /\ (pc[r] = "done" /\ outcome[r] \in {"Success", "DecodeError", "Panic"})
            => unlocks[r] = 1
  /\ printerMutex <=> (\E r \in Reqs : pc[r] \in Holding)
  /\ \A q \in Reqs :
       (pc[q] = "entry" /\ \A r \in Reqs : pc[r] \notin Holding)
         => ENABLED HandlePrintLock(q)

\* A handler that panicked released the lock, and a later request took it,
\* failed to decode and released it again.
C3_Witness ==
  \E r \in Reqs : \E q \in Reqs \ {r} :
    /\ outcome[r] = "Panic"
    /\ unlocks[r] = 1
    /\ outcome[q] = "DecodeError"
    /\ pc[q] = "done"
    /\ unlocks[q] = 1
    /\ ~printerMutex

\* The outcomes of a job that was admitted to the device, as the
\* specification names them.
Admitted == {"Success", "DeviceError"}

CarriesJob(b) ==
  /\ b.read
  /\ b.syntax
  /\ (b = MarshalRequest(TestJob) \/ ~UnmarshalJSON(b).err)

\* C5 as stated: when all requests were handled concurrently (each pair was
\* in flight together) and carry the same job, every request ends as Success
\* or Busy, at least one as Success and at least one as Busy.
C5_Claim ==
  ( /\ \A r \in Reqs : pc[r] = "done"
    /\ \A r \in Reqs : \A q \in Reqs \ {r} :
         r \in inflight[q] \/ q \in inflight[r]
    /\ \E b \in ConcBodies :
         /\ CarriesJob(b)
         /\ \A r \in Reqs : body[r].read => body[r] = b )
  =>
  ( /\ \A r \in Reqs : outcome[r] \in {"Success", "Busy"}
    /\ \E r \in Reqs : outcome[r] = "Success"
    /\ \E r \in Reqs : outcome[r] = "Busy" )

\* The device calls request r has made, in order.
Mine(r) ==
  LET mine(e) == e.req = r IN SelectSeq(device, mine)

\* Whether item i of the body of request r fails to decode.
ItemFails(r, i) == DecodeItem(body[r].receipt[i]).err

\* C6: all-or-nothing decoding. If the body is not JSON, or any item of its
\* receipt fails to decode, the request ends as a decode error and makes no
\* device call at all: none for the items before the failing one, none for
\* those after it, no cut.
C6_AllOrNothing ==
  \A r \in Reqs :
    ( /\ body[r].read
      /\ \/ ~body[r].syntax
         \/ \E i \in 1 .. Len(body[r].receipt) : ItemFails(r, i) )
    =>
    ( /\ outcome[r] = "DecodeError"
      /\ pc[r] \in {"ret", "done"}
      /\ Mine(r) = << >>
      /\ device = << >> )

\* A three-item job whose middle item fails, with items that decode before
\* and after it, has ended as a decode error.
C6_Witness ==
  /\ pc[1] = "done"
  /\ outcome[1] = "DecodeError"
  /\ Len(body[1].receipt) = 3
  /\ ~ItemFails(1, 1)
  /\ ItemFails(1, 2)
  /\ ~ItemFails(1, 3)
  /\ unlocks[1] = 1

RECURSIVE Flatten(_, _, _)
\* The device calls of the commands from index i on, command by command.
Flatten(r, cmds, i) ==
  IF i > Len(cmds) THEN << >>
  ELSE ItemOps(r, i, cmds[i]) \o Flatten(r, cmds, i + 1)

IsPrefix(s, t) == Len(s) <= Len(t) /\ \A k \in 1 .. Len(s) : s[k] = t[k]

\* The commands the body of request r decodes to.
Decoded(r) == UnmarshalJSON(body[r]).Receipt

DecodedOK(r) == body[r].read /\ ~UnmarshalJSON(body[r]).err

CutCount(r) ==
  Cardinality({k \in 1 .. Len(device) : device[k].req = r /\ device[k].op = "Cut"})

C9_Claim ==
  \A r \in Reqs :
    /\ outcome[r] = "Success" => ~ioFailed[r]
    /\ (pc[r] = "done" /\ ioFailed[r]) => outcome[r] = "DeviceError"

\* Whether the item carries, under the key the decoder reads, a string
\* outside the closed set of that enum.
Outside(obj, k, set) == Get(obj, k).j = "string" /\ Get(obj, k).s \notin set

TypeIs(obj, t) == Get(obj, "type") = Str(t)

BadEnum(obj) ==
  \/ (TypeIs(obj, "line") \/ TypeIs(obj, "text"))
       /\ (Outside(obj, "font", {FontA, FontB, FontC})
             \/ Outside(obj, "alignment", Alignments))
  \/ TypeIs(obj, "barcode") /\ Outside(obj, "barcode_type", BarcodeTypes)
  \/ TypeIs(obj, "image")
       /\ (Outside(obj, "alignment", Alignments)
             \/ Outside(obj, "dither_mode", DitherModes))

\* C10 as stated: a job with an item whose font, alignment, barcode type or
\* dither mode lies outside its closed set ends as a decode error.
C10_Claim ==
  \A r \in Reqs :
    ( /\ pc[r] = "done"
      /\ body[r].syntax
      /\ \E i \in 1 .. Len(body[r].receipt) : BadEnum(body[r].receipt[i]) )
    => outcome[r] = "DecodeError"

\* The item of a single-item body whose handler has read it.
TheItem(r) == body[r].receipt[1]

\* A request that has read a single line or text item whose alignment is
\* absent or in its closed set.
LineLikeRead(r) ==
  /\ body[r].read
  /\ body[r].syntax
  /\ Len(body[r].receipt) = 1
  /\ (TypeIs(TheItem(r), "line") \/ TypeIs(TheItem(r), "text"))
  /\ ~Outside(TheItem(r), "alignment", Alignments)

\* The key the item's decoder reads the font size from.
SizeKey(obj) == IF TypeIs(obj, "line") THEN "font-size" ELSE "font_size"

\* Reference: the integers that the strings spell.
RefSpelled ==
  ("0" :> 0) @@ ("1" :> 1) @@ ("3" :> 3) @@ ("-1" :> (0 - 1)) @@ ("+2" :> 2)
    @@ ("007" :> 7) @@ ("300" :> 300)

\* Reference: the integer nearest to t tenths among those not farther from
\* zero than it.
RefTrunc(t) ==
  CHOOSE k \in (0 - 400) .. 400 :
    /\ k * t >= 0
    /\ (IF k >= 0 THEN 10 * k ELSE 0 - 10 * k) <= (IF t >= 0 THEN t ELSE 0 - t)
    /\ (IF t >= 0 THEN t ELSE 0 - t) < (IF k >= 0 THEN 10 * k ELSE 0 - 10 * k) + 10

\* C11: the font size of a line or text item, read under the key of its
\* decoder: an integer n decodes to n; a number with a fraction decodes to
\* its truncation toward zero; a string that spells an integer decodes to
\* that integer, and to the very Command that the number in its place
\* decodes to; any other string fails the request with a decode error and
\* no Command.
C11_FontSizeCoercion ==
  \A r \in Reqs :
    (LineLikeRead(r) /\ pc[r] \notin {"idle", "entry", "bind"}) =>
      LET obj == TheItem(r)
          v == Get(obj, SizeKey(obj))
          twin(n) == (SizeKey(obj) :> Num(n)) @@ obj
      IN  /\ (v.j = "number" /\ ~v.f) =>
               /\ outcome[r] # "DecodeError"
               /\ 10 * req[r][1].FontSize = v.n
          /\ (v.j = "number" /\ v.f) =>
               /\ outcome[r] # "DecodeError"
               /\ req[r][1].FontSize = RefTrunc(v.n)
          /\ (v.j = "string" /\ v.s \in DOMAIN RefSpelled) =>
               /\ outcome[r] # "DecodeError"
               /\ req[r][1].FontSize = RefSpelled[v.s]
               /\ ~DecodeItem(twin(RefSpelled[v.s])).err
               /\ req[r][1] = DecodeItem(twin(RefSpelled[v.s])).cmd
          /\ (v.j = "string" /\ v.s \notin DOMAIN RefSpelled) =>
               /\ outcome[r] = "DecodeError"
               /\ req[r] = << >>

\* A text item whose font size is the number -2.5 was decoded to -2 and
\* printed.
C11_Witness ==
  /\ LineLikeRead(1)
  /\ TypeIs(TheItem(1), "text")
  /\ Get(TheItem(1), "font_size") = Frac(0 - 25)
  /\ req[1] # << >>
  /\ req[1][1].FontSize = 0 - 2
  /\ outcome[1] = "Success"

\* The font size of the item is one that its decoder accepts.
SizeFine(obj) ==
  LET v == Get(obj, SizeKey(obj))
  IN  v.j = "string" => v.s \in DOMAIN RefSpelled

\* C12: the underline of a line or text item: a boolean b decodes to b, the
\* string "true" decodes to true, and every other string ("false", "banana",
\* "TRUE", "True", "1", "") decodes to false; no string under this key makes
\* the request a decode error.
C12_UnderlineCoercion ==
  \A r \in Reqs :
    (LineLikeRead(r) /\ SizeFine(TheItem(r))
       /\ pc[r] \notin {"idle", "entry", "bind"}) =>
      LET v == Get(TheItem(r), "underline")
      IN  /\ v.j \in {"bool", "string"} =>
               /\ outcome[r] # "DecodeError"
               /\ Len(req[r]) = 1
          /\ v.j = "bool" => req[r][1].Underline = v.b
          /\ (v.j = "string" /\ v.s = "true") => req[r][1].Underline = TRUE
          /\ (v.j = "string" /\ v.s # "true") => req[r][1].Underline = FALSE

\* A line whose underline is the string "true" was printed underlined, the
\* toggle issued before its content.
C12_Witness ==
  /\ LineLikeRead(1)
  /\ TypeIs(TheItem(1), "line")
  /\ Get(TheItem(1), "underline") = Str("true")
  /\ outcome[1] = "Success"
  /\ req[1][1].Underline = TRUE
  /\ Mine(1)[4] = Op(1, 1, "Underline", "", "", 0, TRUE)

\* C13 as stated: whenever the body of a request decodes, serialising the
\* decoded commands as a PrintRequest and decoding the result succeeds and
\* gives the same commands again.
C13_Claim ==
  \A r \in Reqs :
    DecodedOK(r) =>
      LET again == UnmarshalJSON(MarshalRequest(Decoded(r)))
      IN  /\ ~again.err
          /\ again.Receipt = Decoded(r)

\* The alignment the device was last set to before its k-th call.
AlignInForce(k) ==
  LET set == {j \in 1 .. (k - 1) : device[j].op = "Align"}
  IN  IF set = {} THEN "unset"
      ELSE device[CHOOSE j \in set : \A m \in set : m <= j].a

\* C14: every barcode and every QR code on the device comes right after a
\* center alignment-select issued by the same command, so the alignment in
\* force at the emission is center, whatever the commands before it set and
\* whatever "alignment" the raw barcode item carried; and every barcode and
\* QR command of a job that ended as Success was emitted this way.
C14_Centered ==
  /\ \A k \in 1 .. Len(device) :
       device[k].op \in {"Barcode", "QR"} =>
         /\ k > 1
         /\ device[k - 1].op = "Align"
         /\ device[k - 1].a = "AlignCenter"
         /\ device[k - 1].req = device[k].req
         /\ device[k - 1].idx = device[k].idx
         /\ AlignInForce(k) = "AlignCenter"
  /\ \A r \in Reqs :
       outcome[r] = "Success" =>
         \A i \in 1 .. Len(req[r]) :
           req[r][i].variant \in {"Barcode", "QRCode"} =>
             \E k \in 1 .. Len(device) :
               /\ device[k].req = r
               /\ device[k].idx = i
               /\ device[k].op = IF req[r][i].variant = "Barcode" THEN "Barcode" ELSE "QR"
               /\ device[k].a = req[r][i].Code

\* A right-aligned text, then a barcode whose raw item asks for the right,
\* then a QR code: printed, both codes centered.
C14_Witness ==
  /\ body[1] = Body(<< TextOK, BarcodeAligned, QROK >>)
  /\ outcome[1] = "Success"
  /\ device[2].a = "AlignRight"
  /\ device[7].op = "Barcode"
  /\ AlignInForce(7) = "AlignCenter"
  /\ device[9].op = "QR"
  /\ AlignInForce(9) = "AlignCenter"

\* The item with its type replaced.
Retyped(obj, t) == ("type" :> Str(t)) @@ obj

\* C15 as stated: a payload decodes as a text item exactly as it decodes as
\* a line item: both fail or both succeed, and then with the same content,
\* font size, font, alignment and underline.
C15_Claim ==
  \A r \in Reqs :
    (LineLikeRead(r) /\ pc[r] \notin {"idle", "entry", "bind"}) =>
      LET other == IF TypeIs(TheItem(r), "line") THEN "text" ELSE "line"
          d == DecodeItem(Retyped(TheItem(r), other))
      IN  /\ (outcome[r] = "DecodeError") <=> d.err
          /\ ~d.err =>
               /\ req[r][1].Content = d.cmd.Content
               /\ req[r][1].FontSize = d.cmd.FontSize
               /\ req[r][1].Font = d.cmd.Font
               /\ req[r][1].Alignment = d.cmd.Alignment
               /\ req[r][1].Underline = d.cmd.Underline

\* The last call named op that the device received before its k-th call.
LastOf(op, k) ==
  LET set == {j \in 1 .. (k - 1) : device[j].op = op}
  IN  IF set = {} THEN Op(0, 0, "unset", "", "", 0 - 1, FALSE)
      ELSE device[CHOOSE j \in set : \A m \in set : m <= j]

\* Reference: the device's names of the fonts and alignments.
RefFont == ("A" :> "FontA") @@ ("B" :> "FontB") @@ ("C" :> "FontC")

RefAlign ==
  ("left" :> "AlignLeft") @@ ("right" :> "AlignRight")
    @@ ("center" :> "AlignCenter")

\* The device calls of request r that its i-th command issued.
Block(r, i) ==
  LET mine(e) == e.req = r /\ e.idx = i IN SelectSeq(device, mine)

\* C16: every line or text command whose turn of the loop has run issued
\* five calls, in this order: font-select, alignment-select, size-select,
\* underline-toggle, then its content (a line by PrintLn, which adds the line
\* break, a text by Print, which adds none), each with the command's own
\* value, whatever the commands before it were; so at the emission the
\* device's font, alignment, size and underline are the command's. (A font
\* outside A, B, C has no device value: C10.)
C16_FormatThenContent ==
  \A r \in Reqs :
    \A i \in 1 .. Len(req[r]) :
      ( /\ req[r][i].variant \in {"Line", "Text"}
        /\ idx[r] > i ) =>
        LET c == req[r][i]
            b == Block(r, i)
            k == CHOOSE j \in 1 .. Len(device) :
                   device[j].req = r /\ device[j].idx = i
                     /\ device[j].op \in {"Print", "PrintLn"}
        IN  /\ Len(b) = 5
            /\ << b[1].op, b[2].op, b[3].op, b[4].op >>
                 = << "Font", "Align", "Size", "Underline" >>
            /\ b[5].op = IF c.variant = "Line" THEN "PrintLn" ELSE "Print"
            /\ b[5].a = c.Content
            /\ device[k] = b[5]
            /\ \A j \in 1 .. 4 : device[k - 5 + j] = b[j]
            /\ c.Font \in DOMAIN RefFont =>
                 (b[1].a = RefFont[c.Font] /\ LastOf("Font", k).a = RefFont[c.Font])
            /\ c.Alignment \in DOMAIN RefAlign =>
                 /\ b[2].a = RefAlign[c.Alignment]
                 /\ LastOf("Align", k).a = RefAlign[c.Alignment]
            /\ c.FontSize \in 0 .. 255 =>
                 (b[3].n = c.FontSize /\ LastOf("Size", k).n = c.FontSize)
            /\ b[4].b = c.Underline
            /\ LastOf("Underline", k).b = c.Underline

\* After a centered barcode, a text asks for font B, the right and size 3,
\* and after it a line for font A, the center and size 2: the device is set
\* to each command's own values when its content is emitted.
C16_Witness ==
  /\ body[1] = Body(<< BarcodeOK, TextOK, LineOK >>)
  /\ outcome[1] = "Success"
  /\ device[7] = Op(1, 2, "Print", "Multi", "", 0, FALSE)
  /\ LastOf("Align", 7).a = "AlignRight"
  /\ LastOf("Size", 7).n = 3
  /\ device[12] = Op(1, 3, "PrintLn", "Hello", "", 0, FALSE)
  /\ LastOf("Font", 12).a = "FontA"
  /\ LastOf("Align", 12).a = "AlignCenter"
  /\ LastOf("Size", 12).n = 2

\* C17 as stated: every image on the device comes after an alignment-select
\* of its own command, and the alignment in force when the raster is emitted
\* is the alignment of the image command.
C17_Claim ==
  \A k \in 1 .. Len(device) :
    device[k].op = "Image" =>
      LET c == req[device[k].req][device[k].idx]
      IN  /\ \E j \in 1 .. (k - 1) :
               /\ device[j].op = "Align"
               /\ device[j].req = device[k].req
               /\ device[j].idx = device[k].idx
          /\ c.Alignment \in DOMAIN RefAlign =>
               AlignInForce(k) = RefAlign[c.Alignment]

\* Reference: the device symbology of the same name as each barcode type
\* the decoder accepts.
RefSymbology ==
  ("UPCA" :> "BarcodeTypeUPCA") @@ ("UPCE" :> "BarcodeTypeUPCE")
    @@ ("EAN13" :> "BarcodeTypeEAN13") @@ ("EAN8" :> "BarcodeTypeEAN8")
    @@ ("CODE39" :> "BarcodeTypeCODE39") @@ ("CODE128" :> "BarcodeTypeCODE128")

\* C18 as stated: a barcode whose type is one of the six the decoder accepts
\* is emitted in the device symbology of the same name, never in CODABAR.
C18_Claim ==
  \A k \in 1 .. Len(device) :
    device[k].op = "Barcode" =>
      LET c == req[device[k].req][device[k].idx]
      IN  c.BarcodeType \in DOMAIN RefSymbology =>
            /\ device[k].s = RefSymbology[c.BarcodeType]
            /\ device[k].s # "BarcodeTypeCODABAR"

\* The job of request r has a command that fails softly: an image whose data
\* does not decode, or a command one of whose device calls returned an error.
SoftFailure(r) ==
  \/ ioFailed[r]
  \/ \E i \in 1 .. Len(Decoded(r)) :
       Decoded(r)[i].variant = "Image" /\ processImage(Decoded(r)[i]) = "nil"

\* C19 as stated: a job with a soft failure still executes every command in
\* order, issues the final cut and ends as Success.
C19_Claim ==
  \A r \in Reqs :
    (pc[r] = "done" /\ DecodedOK(r) /\ SoftFailure(r)) =>
      /\ outcome[r] = "Success"
      /\ Mine(r) = Flatten(r, Decoded(r), 1) \o << Op(r, 0, "Cut", "", "", 0, FALSE) >>

\* C20 as stated: a request whose body fails to decode never locks the
\* mutex and is answered with the decode error, never with Busy; a request is
\* answered Busy only because of a holder whose job decoded and is executing.
C20_Claim ==
  /\ \A r \in Reqs :
       (body[r].read /\ UnmarshalJSON(body[r]).err) =>
         (locks[r] = 0 /\ outcome[r] \in {"none", "DecodeError"})
  /\ \A q \in Reqs :
       outcome[q] = "Busy" =>
         \A r \in contended[q] :
           body[r].read => ~UnmarshalJSON(body[r]).err

\* C20, amended: arbitration precedes decoding. A body is read only by a
\* handler that has locked the mutex; a request whose body fails to decode
\* holds the lock while it decodes, makes no device call, is answered with
\* the decode error and unlocks; a request that meets a held mutex is
\* answered Busy without its body being read, whether the body would decode
\* or not and whether the holder is executing a job or failing to decode
\* one; Busy is answered only when another request holds the mutex.
C20_Amended ==
  /\ \A r \in Reqs :
       /\ body[r].read => (locks[r] = 1 /\ outcome[r] # "Busy")
       /\ pc[r] = "bind" => (printerMutex /\ ~body[r].read)
       /\ (body[r].read /\ UnmarshalJSON(body[r]).err) =>
            /\ outcome[r] = "DecodeError"
            /\ Mine(r) = << >>
            /\ pc[r] \in {"ret", "done"}
            /\ pc[r] = "ret" => printerMutex
            /\ pc[r] = "done" => unlocks[r] = 1
  /\ \A q \in Reqs :
       outcome[q] = "Busy" =>
         /\ ~body[q].read
         /\ locks[q] = 0
         /\ contended[q] # {}
         /\ \A r \in contended[q] : r # q /\ locks[r] = 1

\* A request was answered Busy because of a holder whose body then failed
\* to decode and which made no device call.
C20_Witness ==
  \E r \in Reqs : \E q \in Reqs \ {r} :
    /\ outcome[q] = "Busy"
    /\ r \in contended[q]
    /\ body[r].read
    /\ UnmarshalJSON(body[r]).err
    /\ outcome[r] = "DecodeError"
    /\ pc[r] = "done"
    /\ device = << >>

\* A job that has been admitted: its handler holds the lock and its body has
\* decoded.
AdmittedJob(r) == pc[r] \in Holding /\ DecodedOK(r)

\* The job of request r has run to completion.
Completed(r) ==
  /\ pc[r] = "done"
  /\ outcome[r] = "Success"
  /\ Mine(r) = Flatten(r, Decoded(r), 1) \o << Op(r, 0, "Cut", "", "", 0, FALSE) >>
  /\ unlocks[r] = 1

\* C21: run to completion. Every device call that returns lets the handler
\* go on, so an admitted job eventually has executed all of its commands,
\* issued the cut, answered Success and released the lock (unless a device
\* call did not return: it panicked). A step of an admitted job only ever
\* moves it to the next command, from the last command to the cut, from the
\* cut to the response and from there to the release: no step cancels or
\* abandons it. A handler that has been called can always take a step, is
\* eventually done, and one that finds the lock released is admitted.
C21_RunToCompletion ==
  /\ \A r \in Reqs : AdmittedJob(r) ~> (Completed(r) \/ outcome[r] = "Panic")
  /\ \A r \in Reqs : (pc[r] = "entry") ~> (pc[r] = "done")
  /\ [](\A r \in Reqs :
          /\ InFlight(r) => ENABLED HandlerStep(r)
          /\ (pc[r] = "entry" /\ ~printerMutex) =>
               (ENABLED HandlePrintLock(r) /\ ~ENABLED HandlePrintBusy(r)))
  /\ [][\A r \in Reqs :
          (AdmittedJob(r) /\ pc'[r] # "panic") =>
            /\ req'[r] = req[r]
            /\ pc[r] = "exec" =>
                 /\ idx[r] <= Len(req[r])
                 /\ idx'[r] = idx[r] => pc'[r] = pc[r]
                 /\ idx'[r] # idx[r] =>
                      /\ idx'[r] = idx[r] + 1
                      /\ pc'[r] = IF idx[r] = Len(req[r]) THEN "cut" ELSE "exec"
            /\ pc[r] = "cut" => pc'[r] \in {"cut", "respond"}
            /\ pc[r] = "respond" => pc'[r] \in {"respond", "ret"}
            /\ pc[r] = "ret" =>
                 /\ pc'[r] \in {"ret", "done"}
                 /\ pc'[r] = "done" => (outcome[r] = "Success" /\ unlocks'[r] = 1)]_vars

\* A job of two commands ran to completion although one of its device calls
\* returned an error, and after its release the next job was admitted and
\* ran to completion too.
C21_Witness ==
  \E r \in Reqs : \E q \in Reqs \ {r} :
    /\ Completed(r)
    /\ Len(req[r]) = 2
    /\ ioFailed[r]
    /\ Completed(q)
    /\ contended[q] = {}
    /\ ~printerMutex

\* Reference: the residue of n modulo 256.
RefNarrow(n) ==
  CHOOSE m \in 0 .. 255 : \E k \in (0 - 2) .. 2 : n = 256 * k + m

\* C23: no range check on the font size, and an 8-bit size-select. An
\* integer under the font-size key of a line or text item decodes to itself
\* whatever its size or sign; and the size-select that the command issues
\* carries, for width and height alike, the decoded font size modulo 256, a
\* value of 0..255: 256 selects 0, 257 selects 1, -1 selects 255.
C23_SizeNarrowed ==
  \A r \in Reqs :
    LineLikeRead(r) =>
      LET v == Get(TheItem(r), SizeKey(TheItem(r)))
      IN  /\ (v.j = "number" /\ ~v.f /\ pc[r] \notin {"idle", "entry", "bind"}) =>
               /\ outcome[r] # "DecodeError"
               /\ 10 * req[r][1].FontSize = v.n
          /\ (outcome[r] # "DecodeError" /\ idx[r] > 1) =>
               /\ Len(Block(r, 1)) = 5
               /\ Block(r, 1)[3].op = "Size"
               /\ Block(r, 1)[3].n \in 0 .. 255
               /\ Block(r, 1)[3].n = RefNarrow(req[r][1].FontSize)
               /\ req[r][1].FontSize = 256 => Block(r, 1)[3].n = 0
               /\ req[r][1].FontSize = 257 => Block(r, 1)[3].n = 1

\* A line whose font size is 257 was decoded to 257 and printed with the
\* size-select 1.
C23_Witness ==
  /\ LineLikeRead(1)
  /\ TypeIs(TheItem(1), "line")
  /\ Get(TheItem(1), "font-size") = Num(257)
  /\ outcome[1] = "Success"
  /\ req[1][1].FontSize = 257
  /\ Mine(1)[3] = Op(1, 1, "Size", "", "", 1, FALSE)

\* The device calls of different requests do not interleave.
Contiguous ==
  \A j \in 1 .. Len(device) : \A l \in j .. Len(device) :
    device[j].req = device[l].req =>
      \A k \in j .. l : device[k].req = device[j].req

\* C22 as stated: the calls the printer received are whole job runs one
\* after the other: the calls of two requests never interleave, the run of a
\* request whose handler is over ends with that request's cut, a run is
\* followed by another only after its cut, and a request answered Busy or
\* with a decode error has made no call.
C22_Claim ==
  /\ Contiguous
  /\ \A r \in Reqs :
       (Mine(r) # << >> /\ pc[r] = "done") =>
         /\ Mine(r)[Len(Mine(r))].op = "Cut"
         /\ CutCount(r) = 1
  /\ \A k \in 1 .. (Len(device) - 1) :
       device[k].req # device[k + 1].req => device[k].op = "Cut"
  /\ \A r \in Reqs :
       outcome[r] \in {"Busy", "DecodeError"} => Mine(r) = << >>

====
